---- MODULE Spec2Model ----
(***************************************************************************)
(* Model of Project-1/readmit30/faculty/make_site.py: the leaderboard      *)
(* pipeline that reads leaderboard/leaderboard.csv, coerces and sorts the  *)
(* metric columns, writes docs/index.html and renders docs/leaderboard.png.*)
(*                                                                         *)
(* Data frames are objects on a heap (heap[id] is the frame's content) so  *)
(* that copies and aliases are distinguishable.  Metric values are scaled  *)
(* integers.  A cell is a record [t, n, s]:                                *)
(*   t = "num"   a number n                                                *)
(*   t = "nan"   the missing marker (empty CSV cell, or coerced text)      *)
(*   t = "str"   the text s                                                *)
(*   t = "f4"    the text of n formatted with f"{x:.4f}"                   *)
(*   t = "repr"  the text of n under to_html's default float format        *)
(*   t = "ok"    the markup <span class='ok'>OK</span>                     *)
(*   t = "err"   the markup <span class='err'>s</span>                     *)
(***************************************************************************)
EXTENDS Integers, Sequences, FiniteSets, TLC

\* ------------------------------------------------------------------ bounds
MaxRows == 3
MaxCells == 6
MaxVal == 1

\* ------------------------------------------------------------------- cells
Num(n) == [t |-> "num", n |-> n, s |-> ""]
NaN == [t |-> "nan", n |-> 0, s |-> ""]
Str(x) == [t |-> "str", n |-> 0, s |-> x]

METRICS == <<"auroc", "auprc", "brier">>
DIRECTIONS == <<FALSE, FALSE, TRUE>>
Columns == {"auroc", "auprc", "brier", "status"}

MetricCells == {Num(n) : n \in 0..MaxVal} \cup {NaN, Str("n/a")}
StatusCells == {Str("OK"), Str("FAIL")}
CellsOf(c) == IF c = "status" THEN StatusCells ELSE MetricCells

\* ------------------------------------------------------------------ frames
EmptyFrame == [cols |-> {}, rows |-> <<>>]
Null == [cols |-> {"<unallocated>"}, rows |-> <<>>]

Min(a, b) == IF a < b THEN a ELSE b
Max(a, b) == IF a > b THEN a ELSE b

RowsOver(S) == {r \in [S -> MetricCells \cup StatusCells] : \A c \in S : r[c] \in CellsOf(c)}
MaxLenOver(S) == Min(MaxRows, MaxCells \div Cardinality(S))
CsvColumnSets == (SUBSET Columns) \ {{}}

\* Fault variants of IsEmpty: the None test alone; the column test alone.
IsEmptyOnlyNone(f) == FALSE
IsEmptyNoColumns(f) == f.cols = {}

IsEmpty(f) == f.cols = {} \/ Len(f.rows) = 0

\* ----------------------------------------------------------- numeric coercion
ToNumeric(c) == IF c.t = "num" THEN c ELSE NaN

CoerceRow(r, cols) == [c \in cols |-> IF c \in {"auroc", "auprc", "brier"} THEN ToNumeric(r[c]) ELSE r[c]]
Coerce(f) == [cols |-> f.cols, rows |-> [i \in 1..Len(f.rows) |-> CoerceRow(f.rows[i], f.cols)]]

\* ------------------------------------------------------------------ sorting
SortCols(cols) == SelectSeq(METRICS, LAMBDA c : c \in cols)
\* Fault variant of SortAsc: every key descending.
SortAscAllDescending(cols) == [k \in 1..Len(SortCols(cols)) |-> FALSE]

SortAsc(cols) == SubSeq(DIRECTIONS, 1, Len(SortCols(cols)))

\* Fault variant of KeyCmp: a missing value ordered as the smallest number.
KeyCmpNaSmallest(a, b, asc) ==
    LET va == IF a.t = "nan" THEN -1 ELSE a.n
        vb == IF b.t = "nan" THEN -1 ELSE b.n
    IN IF va = vb THEN 0
       ELSE IF asc THEN (IF va < vb THEN -1 ELSE 1)
       ELSE (IF va > vb THEN -1 ELSE 1)

\* Order of two coerced cells under one key: -1 first, 0 tied, 1 second.
KeyCmp(a, b, asc) ==
    IF a.t = "nan" /\ b.t = "nan" THEN 0
    ELSE IF a.t = "nan" THEN 1
    ELSE IF b.t = "nan" THEN -1
    ELSE IF a.n = b.n THEN 0
    ELSE IF asc THEN (IF a.n < b.n THEN -1 ELSE 1)
    ELSE (IF a.n > b.n THEN -1 ELSE 1)

RECURSIVE LexCmp(_, _, _, _, _)
LexCmp(r1, r2, by, asc, i) ==
    IF i > Len(by) THEN 0
    ELSE LET k == KeyCmp(r1[by[i]], r2[by[i]], asc[i])
         IN IF k # 0 THEN k ELSE LexCmp(r1, r2, by, asc, i + 1)

Before(r1, r2, by, asc) == LexCmp(r1, r2, by, asc, 1) = -1

RECURSIVE InsertRow(_, _, _, _)
InsertRow(sorted, r, by, asc) ==
    IF sorted = <<>> THEN <<r>>
    ELSE IF Before(r, Head(sorted), by, asc) THEN <<r>> \o sorted
    ELSE <<Head(sorted)>> \o InsertRow(Tail(sorted), r, by, asc)

RECURSIVE StableSort(_, _, _)
StableSort(rows, by, asc) ==
    IF rows = <<>> THEN <<>>
    ELSE InsertRow(StableSort(SubSeq(rows, 1, Len(rows) - 1), by, asc), rows[Len(rows)], by, asc)

Perms(n) == {p \in [1..n -> 1..n] : \A i, j \in 1..n : i # j => p[i] # p[j]}

\* The row orders sort_values may return: the stable order when two or more
\* keys are given (lexsort); with one key (quicksort) any order of tied rows.
SortOrders(rows, by, asc) ==
    LET st == StableSort(rows, by, asc)
    IN IF Len(by) # 1 THEN {st}
       ELSE {[i \in 1..Len(st) |-> st[p[i]]] : p \in {q \in Perms(Len(st)) : \A i \in 1..Len(st) : KeyCmp(st[q[i]][by[1]], st[i][by[1]], asc[1]) = 0}}

\* ----------------------------------------------------------- HTML rendering
\* Fault variant of StatusSpan: the test inverted.
StatusSpanInverted(c) == IF c # Str("OK") THEN [t |-> "ok", n |-> 0, s |-> "OK"] ELSE [t |-> "err", n |-> c.n, s |-> c.s]

StatusSpan(c) == IF c = Str("OK") THEN [t |-> "ok", n |-> 0, s |-> "OK"] ELSE [t |-> "err", n |-> c.n, s |-> c.s]

ApplyStatus(f) == [cols |-> f.cols, rows |-> [i \in 1..Len(f.rows) |-> [f.rows[i] EXCEPT !["status"] = StatusSpan(@)]]]

\* to_html(index=False, escape=False): numbers in the default float format,
\* missing values as the text NaN, text and markup verbatim.
HtmlCell(c) ==
    IF c.t = "num" THEN [t |-> "repr", n |-> c.n, s |-> ""]
    ELSE IF c.t = "nan" THEN Str("NaN")
    ELSE c

ToHtml(f) == [slot |-> "table", cols |-> f.cols, rows |-> [i \in 1..Len(f.rows) |-> [c \in f.cols |-> HtmlCell(f.rows[i][c])]]]

NoSubmissionsPage == [slot |-> "<p>No submissions yet.</p>", cols |-> {}, rows |-> <<>>]
NoFile == [slot |-> "absent", cols |-> {}, rows |-> <<>>]

\* ---------------------------------------------------------- image rendering
\* Fault variant of HeadRows: the last rows instead of the first (tail).
TailRows(rows, n) == SubSeq(rows, Len(rows) - (IF n >= 0 THEN Min(n, Len(rows)) ELSE Max(Len(rows) + n, 0)) + 1, Len(rows))

\* DataFrame.head(n): the first n rows, or all but the last -n when n < 0.
HeadRows(rows, n) == SubSeq(rows, 1, IF n >= 0 THEN Min(n, Len(rows)) ELSE Max(Len(rows) + n, 0))

Truncates(rows, max_rows) == max_rows # 0 /\ Len(rows) > max_rows

ImgRows(rows, max_rows) == IF Truncates(rows, max_rows) THEN HeadRows(rows, max_rows) ELSE rows

\* f"{x:.4f}" for a number, "" for a missing value; text stays as it is.
ImgCell(c) ==
    IF c.t = "num" THEN [t |-> "f4", n |-> c.n, s |-> ""]
    ELSE IF c.t = "nan" THEN Str("")
    ELSE c

FormatImg(f) == [cols |-> f.cols, rows |-> [i \in 1..Len(f.rows) |-> [c \in f.cols |-> ImgCell(f.rows[i][c])]]]

\* Fault variant of Title: the two numbers exchanged.
TitleExchanged(rows, max_rows) ==
    IF max_rows # 0 /\ Len(rows) > max_rows THEN [top |-> TRUE, n |-> Len(rows), m |-> max_rows]
    ELSE [top |-> FALSE, n |-> 0, m |-> 0]

Title(rows, max_rows) ==
    IF Truncates(rows, max_rows) THEN [top |-> TRUE, n |-> max_rows, m |-> Len(rows)]
    ELSE [top |-> FALSE, n |-> 0, m |-> 0]

NoTitle == [top |-> FALSE, n |-> 0, m |-> 0]
NoImage == [kind |-> "absent", cols |-> {}, rows |-> <<>>, title |-> NoTitle]
PlaceholderImage == [kind |-> "No submissions yet.", cols |-> {}, rows |-> <<>>, title |-> NoTitle]
TableImage(f, title) == [kind |-> "table", cols |-> f.cols, rows |-> f.rows, title |-> title]

\* ------------------------------------------------------------------- state
VARIABLES pc, lb_exists, max_rows, csv, heap, df, df_sorted, df_html, df_img, out_html, out_png, mpl, stdout

vars == <<pc, lb_exists, max_rows, csv, heap, df, df_sorted, df_html, df_img, out_html, out_png, mpl, stdout>>

ObjIds == {"df", "sorted", "html", "img"}

\* The row cap: render_leaderboard_image's parameter default, and the values
\* LEADERBOARD_IMAGE_ROWS may give IMG_MAX_ROWS.  IMG_MAX_ROWS is read once
\* when the module is loaded and used only as the max_rows argument of the
\* two calls in main; its value is drawn where the parameter is first read.
DefaultMaxRows == 25
IMG_MAX_ROWS == ((-1)..(MaxRows - 1)) \cup {DefaultMaxRows}

\* Fault variant of CopyRef: no copy, the same object.
CopyRefAlias(src, fresh) == src

\* DataFrame.copy(): the reference to the new object, distinct from src.
CopyRef(src, fresh) == fresh

Init ==
    /\ pc = "main"
    /\ lb_exists \in BOOLEAN
    /\ max_rows = DefaultMaxRows
    /\ csv = Null
    /\ heap = [o \in ObjIds |-> Null]
    /\ df = "none"
    /\ df_sorted = "none"
    /\ df_html = "none"
    /\ df_img = "none"
    /\ out_html = NoFile
    /\ out_png = NoImage
    /\ mpl = "untried"
    /\ stdout = <<>>

\* main, lines 139-140: no input file; the placeholder page is written and
\* a fresh empty frame is about to be handed to the image renderer.
MainMissing ==
    /\ pc = "main"
    /\ ~lb_exists
    /\ out_html' = NoSubmissionsPage
    /\ heap' = [heap EXCEPT !["sorted"] = EmptyFrame]
    /\ df_sorted' = "sorted"
    /\ pc' = "render"
    /\ UNCHANGED <<lb_exists, max_rows, csv, df, df_html, df_img, out_png, mpl, stdout>>

\* main, line 146: read_csv raises (empty or undecodable file); the
\* exception leaves main.
MainReadRaises ==
    /\ pc = "main"
    /\ lb_exists
    /\ pc' = "raised"
    /\ UNCHANGED <<lb_exists, max_rows, csv, heap, df, df_sorted, df_html, df_img, out_html, out_png, mpl, stdout>>

\* main, lines 146-155: read the table, coerce the metric columns in place,
\* sort.  Without a metric column df_sorted is df itself.
MainLoadSort ==
    /\ pc = "main"
    /\ lb_exists
    /\ \E S \in CsvColumnSets :
       \E n \in 0..MaxLenOver(S) :
       \E rs \in [1..n -> RowsOver(S)] :
         LET f == [cols |-> S, rows |-> rs]
             d == Coerce(f)
             sort_cols == SortCols(d.cols)
             sort_asc == SortAsc(d.cols)
         IN /\ csv' = f
            /\ df' = "df"
            /\ IF sort_cols # <<>>
               THEN \E sorted \in SortOrders(d.rows, sort_cols, sort_asc) :
                      /\ heap' = [heap EXCEPT !["df"] = d, !["sorted"] = [cols |-> d.cols, rows |-> sorted]]
                      /\ df_sorted' = "sorted"
               ELSE /\ heap' = [heap EXCEPT !["df"] = d]
                    /\ df_sorted' = "df"
    /\ pc' = "html"
    /\ UNCHANGED <<lb_exists, max_rows, df_html, df_img, out_html, out_png, mpl, stdout>>

\* main, lines 158-167: copy the sorted frame, mark up its status column,
\* write the page.
MainWriteHtml ==
    /\ pc = "html"
    /\ LET ref == CopyRef(df_sorted, "html")
           h1 == [heap EXCEPT ![ref] = heap[df_sorted]]
           h2 == IF "status" \in h1[ref].cols THEN [h1 EXCEPT ![ref] = ApplyStatus(@)] ELSE h1
       IN /\ df_html' = ref
          /\ heap' = h2
          /\ out_html' = ToHtml(h2[ref])
    /\ stdout' = Append(stdout, "Wrote docs/index.html")
    /\ pc' = "render"
    /\ UNCHANGED <<lb_exists, max_rows, csv, df, df_sorted, df_img, out_png, mpl>>

\* What main prints after render_leaderboard_image returns (lines 142-143, 170).
Trailer == IF lb_exists THEN <<"Wrote docs/leaderboard.png">> ELSE <<"Wrote docs/index.html (empty)", "Wrote docs/leaderboard.png (empty)">>

\* Fault variant of RenderSkip: the import error is not caught.
RenderSkipUncaught ==
    /\ pc = "render"
    /\ mpl' = "unavailable"
    /\ pc' = "raised"
    /\ UNCHANGED <<lb_exists, max_rows, csv, heap, df, df_sorted, df_html, df_img, out_html, out_png, stdout>>

\* render_leaderboard_image, lines 40-46: matplotlib cannot be imported.
RenderSkip ==
    /\ pc = "render"
    /\ mpl' = "unavailable"
    /\ stdout' = stdout \o <<"Skipping image render (matplotlib unavailable)">> \o Trailer
    /\ pc' = "done"
    /\ UNCHANGED <<lb_exists, max_rows, csv, heap, df, df_sorted, df_html, df_img, out_html, out_png>>

\* render_leaderboard_image, lines 50-56: the frame is empty.
RenderEmpty ==
    /\ pc = "render"
    /\ IsEmpty(heap[df_sorted])
    /\ mpl' = "imported"
    /\ out_png' = PlaceholderImage
    /\ stdout' = stdout \o Trailer
    /\ pc' = "done"
    /\ UNCHANGED <<lb_exists, max_rows, csv, heap, df, df_sorted, df_html, df_img, out_html>>

\* render_leaderboard_image, lines 58-131: truncate a copy, format it as
\* text, draw the table with its title.  ax.table is handed the cell grid;
\* with no body rows at all (a negative cap that drops every row) the
\* library may reject the grid, and the exception leaves main.
RenderTable ==
    /\ pc = "render"
    /\ ~IsEmpty(heap[df_sorted])
    /\ mpl' = "imported"
    /\ \E cap \in IMG_MAX_ROWS :
       LET src == heap[df_sorted]
           ref == CopyRef(df_sorted, "img")
           h1 == [heap EXCEPT ![ref] = [cols |-> src.cols, rows |-> ImgRows(src.rows, cap)]]
           h2 == [h1 EXCEPT ![ref] = FormatImg(@)]
       IN /\ max_rows' = cap
          /\ df_img' = ref
          /\ heap' = h2
          /\ \/ /\ out_png' = TableImage(h2[ref], Title(src.rows, cap))
                /\ stdout' = stdout \o Trailer
                /\ pc' = "done"
             \/ /\ Len(h2[ref].rows) = 0
                /\ pc' = "raised"
                /\ UNCHANGED <<out_png, stdout>>
    /\ UNCHANGED <<lb_exists, csv, df, df_sorted, df_html, out_html>>

Next ==
    \/ MainMissing
    \/ MainReadRaises
    \/ MainLoadSort
    \/ MainWriteHtml
    \/ RenderSkip
    \/ RenderEmpty
    \/ RenderTable

Spec == Init /\ [][Next]_vars

\* ------------------------------------------------------------ the claims
SortedFrame == heap[df_sorted]
SortedRows == SortedFrame.rows
IsSorted == lb_exists /\ df_sorted # "none"
AllMetrics == {"auroc", "auprc", "brier"}
Present(c) == c.t = "num"
Missing(c) == c.t = "nan"

\* C1: with auroc, auprc and brier all present, the sorted rows are
\* non-increasing in auroc; among rows of equal auroc non-increasing in
\* auprc; among rows of equal (auroc, auprc) non-decreasing in brier.
C1_ThreeKeyOrder ==
    (IsSorted /\ AllMetrics \subseteq SortedFrame.cols) =>
        \A i, j \in 1..Len(SortedRows) :
            i < j =>
                LET a == SortedRows[i]
                    b == SortedRows[j]
                IN /\ (Present(a.auroc) /\ Present(b.auroc)) => a.auroc.n >= b.auroc.n
                   /\ (a.auroc = b.auroc /\ Present(a.auprc) /\ Present(b.auprc)) => a.auprc.n >= b.auprc.n
                   /\ (a.auroc = b.auroc /\ a.auprc = b.auprc /\ Present(a.brier) /\ Present(b.brier)) => a.brier.n <= b.brier.n

\* C1 witness: three metric columns, the sort moved rows, and the first two
\* rows are tied on auroc and auprc and ordered by a rising brier.
C1_Witness ==
    /\ IsSorted
    /\ AllMetrics \subseteq SortedFrame.cols
    /\ Len(SortedRows) = 2
    /\ SortedRows # heap[df].rows
    /\ Present(SortedRows[1].auroc)
    /\ SortedRows[1].auroc = SortedRows[2].auroc
    /\ Present(SortedRows[1].auprc)
    /\ SortedRows[1].auprc = SortedRows[2].auprc
    /\ Present(SortedRows[1].brier)
    /\ Present(SortedRows[2].brier)
    /\ SortedRows[1].brier.n < SortedRows[2].brier.n

\* The direction each metric has on its own: only brier ascends.
OwnAsc(by) == [k \in 1..Len(by) |-> by[k] = "brier"]

\* C2: whatever subset of auroc, auprc, brier is present, the sorted rows
\* are ordered by the present columns in that priority, auroc descending,
\* auprc descending, brier ascending.
C2_OwnDirections ==
    IsSorted =>
        LET by == SortCols(SortedFrame.cols)
        IN \A i, j \in 1..Len(SortedRows) :
               i < j => ~Before(SortedRows[j], SortedRows[i], by, OwnAsc(by))

\* C3 as stated: in every key column, on its own, no row with a missing
\* value stands before a row with a present value.
C3_MissingLastEveryColumn ==
    IsSorted =>
        \A c \in SortedFrame.cols \cap AllMetrics :
            \A i, j \in 1..Len(SortedRows) :
                i < j => ~(Missing(SortedRows[i][c]) /\ Present(SortedRows[j][c]))

\* C3 amended: every unparseable or empty metric cell is coerced to the
\* missing marker; in the first present key column the rows with a missing
\* value stand after all rows with a present value; in a later key column
\* they do so among the rows that agree on every earlier key column.
C3_MissingLastWithinTies ==
    (lb_exists /\ df # "none") =>
        /\ \A i \in 1..Len(csv.rows) :
               \A c \in csv.cols \cap AllMetrics :
                   /\ heap[df].rows[i][c].t \in {"num", "nan"}
                   /\ Missing(heap[df].rows[i][c]) <=> csv.rows[i][c].t # "num"
        /\ LET by == SortCols(SortedFrame.cols)
           IN \A k \in 1..Len(by) :
                  \A i, j \in 1..Len(SortedRows) :
                      (i < j /\ \A h \in 1..(k - 1) : SortedRows[i][by[h]] = SortedRows[j][by[h]])
                          => ~(Missing(SortedRows[i][by[k]]) /\ Present(SortedRows[j][by[k]]))

\* C3 witness: an unparseable auprc cell was coerced; its row leads on
\* auroc and so stands before a row whose auprc is present, while a row tied
\* with it on auroc and with auprc present stands before it.
C3_Witness ==
    /\ IsSorted
    /\ SortedFrame.cols = {"auroc", "auprc"}
    /\ \E i \in 1..Len(csv.rows) : csv.rows[i].auprc = Str("n/a")
    /\ Len(SortedRows) = 3
    /\ SortedRows[1].auroc = SortedRows[2].auroc
    /\ Present(SortedRows[1].auprc)
    /\ Missing(SortedRows[2].auprc)
    /\ Present(SortedRows[3].auprc)

Rendered == pc = "done" /\ out_png.kind = "table"
IsPrefixOfSorted(rows) ==
    /\ Len(rows) <= Len(SortedRows)
    /\ \A i \in 1..Len(rows) : rows[i] = [c \in SortedFrame.cols |-> ImgCell(SortedRows[i][c])]

\* C4 as stated: for every value of the row cap, zero and negative ones
\* included, the image shows at most max_rows body rows, and they are the
\* leading rows of the sorted table in the same order.
C4_AtMostCapAnyCap ==
    Rendered => (Len(out_png.rows) <= max_rows /\ IsPrefixOfSorted(out_png.rows))

\* C4 amended: the rows of the image are always the leading rows of the
\* sorted table in the same order; a cap of 1 or more keeps min(M, cap) of
\* them, a cap of 0 keeps all M (0 switches the cap off), and a negative cap
\* keeps all but the last -cap rows.
C4_LeadingRows ==
    Rendered =>
        /\ IsPrefixOfSorted(out_png.rows)
        /\ max_rows >= 1 => Len(out_png.rows) = Min(Len(SortedRows), max_rows)
        /\ max_rows = 0 => Len(out_png.rows) = Len(SortedRows)
        /\ max_rows < 0 => Len(out_png.rows) = Max(Len(SortedRows) + max_rows, 0)

\* C4 witness: a cap of 1 cut a sorted table of several distinct rows, whose
\* order the sort had changed, down to its first row.
C4_Witness ==
    /\ Rendered
    /\ max_rows = 1
    /\ Len(SortedRows) >= 2
    /\ SortedRows[1] # SortedRows[2]
    /\ SortedRows # heap["df"].rows
    /\ Len(out_png.rows) = 1

HtmlHasAllRows ==
    (lb_exists /\ out_html.slot = "table") =>
        /\ Len(out_html.rows) = Len(SortedRows)
        /\ Len(out_html.rows) = Len(csv.rows)

\* C5 as stated: whenever the table has more rows than the row cap, the
\* image title carries "Top {cap} of {total}", and the page has every row.
C5_TopTitleAnyCap ==
    /\ (pc = "done" /\ lb_exists /\ mpl = "imported" /\ Len(csv.rows) > max_rows)
           => out_png.title = [top |-> TRUE, n |-> max_rows, m |-> Len(SortedRows)]
    /\ HtmlHasAllRows

\* C5 amended: whenever the row cap is 1 or more, the table has more rows
\* than the cap and the image is rendered, the title carries
\* "Top {cap} of {total}" with total the rows of the sorted table; the page
\* has every row of the sorted table whatever the cap.
C5_TopTitlePositiveCap ==
    /\ (pc = "done" /\ lb_exists /\ mpl = "imported" /\ max_rows >= 1 /\ Len(csv.rows) > max_rows)
           => /\ out_png.kind = "table"
              /\ out_png.title = [top |-> TRUE, n |-> max_rows, m |-> Len(SortedRows)]
    /\ HtmlHasAllRows

\* C5 witness: three rows under a cap of 2; the title says Top 2 of 3 and
\* the page has the three rows.
C5_Witness ==
    /\ Rendered
    /\ max_rows = 2
    /\ Len(csv.rows) = 3
    /\ out_png.title = [top |-> TRUE, n |-> 2, m |-> 3]
    /\ Len(out_png.rows) = 2
    /\ Len(out_html.rows) = 3

\* C6: without the input file, main writes the page with the "No
\* submissions yet." placeholder in the table slot, then attempts the
\* placeholder image (the message only, no table), and returns without
\* raising and without reading or sorting a table.
C6_MissingFile ==
    ~lb_exists =>
        /\ pc # "raised"
        /\ csv = Null
        /\ df = "none"
        /\ heap["df"] = Null
        /\ df_html = "none"
        /\ df_img = "none"
        /\ pc \in {"render", "done"} => (out_html = NoSubmissionsPage /\ SortedFrame = EmptyFrame)
        /\ pc = "done" => \/ mpl = "imported" /\ out_png = PlaceholderImage
                          \/ mpl = "unavailable" /\ out_png = NoImage
        /\ pc = "done" => stdout[Len(stdout)] = "Wrote docs/leaderboard.png (empty)"

\* C6 witness: the run without input file has returned, placeholder page
\* and placeholder image written.
C6_Witness ==
    /\ ~lb_exists
    /\ pc = "done"
    /\ out_html = NoSubmissionsPage
    /\ out_png = PlaceholderImage

\* C7: when matplotlib cannot be imported, on the missing-file path and on
\* the loaded-table path alike, the run completes without an unhandled
\* error: the page is written before the image render is attempted, the
\* renderer prints a diagnostic and returns, and no image file is created
\* or modified.
C7_NoMatplotlib ==
    /\ pc = "render" => out_html # NoFile
    /\ mpl = "unavailable" =>
           /\ pc = "done"
           /\ out_html = (IF lb_exists THEN ToHtml(heap[df_html]) ELSE NoSubmissionsPage)
           /\ out_png = NoImage
           /\ df_img = "none"
           /\ \E k \in 1..Len(stdout) : stdout[k] = "Skipping image render (matplotlib unavailable)"

\* C7 witness: a loaded table with rows, its page written, the image skipped.
C7_Witness ==
    /\ mpl = "unavailable"
    /\ lb_exists
    /\ pc = "done"
    /\ out_html.slot = "table"
    /\ Len(out_html.rows) >= 2

\* C8 as stated: the empty-state path of the HTML renderer and that of the
\* image renderer are taken only when the input file does not exist.
C8_EmptyStateOnlyWhenMissing ==
    /\ out_html = NoSubmissionsPage => ~lb_exists
    /\ out_png = PlaceholderImage => ~lb_exists

\* C8 amended: main does not treat a headers-only file as a missing file:
\* it is loaded, sorted and written as a table with no body rows, and the
\* placeholder page is written only when the file does not exist.  The
\* image renderer takes its empty-state path whenever the frame it is given
\* has no rows, so a headers-only file gets the same placeholder image as a
\* missing file.
C8_EmptyState ==
    /\ out_html = NoSubmissionsPage => ~lb_exists
    /\ (lb_exists /\ pc \in {"render", "done"}) =>
           (out_html.slot = "table" /\ out_html.cols = csv.cols /\ Len(out_html.rows) = Len(csv.rows))
    /\ (pc = "done" /\ mpl = "imported") =>
           (out_png = PlaceholderImage <=> (~lb_exists \/ Len(csv.rows) = 0))

\* C8 witness: a headers-only file went through load, sort and the HTML
\* table, and the image is the placeholder.
C8_Witness ==
    /\ lb_exists
    /\ pc = "done"
    /\ csv.cols = Columns
    /\ Len(csv.rows) = 0
    /\ out_html.slot = "table"
    /\ out_png = PlaceholderImage

\* C9: in the page of a loaded table with a status column, a row whose
\* status is exactly "OK" gets the success marker (class ok, text OK), a row
\* with any other status gets the error marker (class err) with that status
\* as its text; the other columns pass through unchanged and the rows keep
\* the sorted order.
C9_StatusMarkup ==
    (lb_exists /\ out_html.slot = "table" /\ "status" \in out_html.cols) =>
        /\ Len(out_html.rows) = Len(SortedRows)
        /\ Len(heap[df_html].rows) = Len(SortedRows)
        /\ \A i \in 1..Len(SortedRows) :
               /\ SortedRows[i].status = Str("OK") => out_html.rows[i].status = [t |-> "ok", n |-> 0, s |-> "OK"]
               /\ SortedRows[i].status # Str("OK") =>
                      (out_html.rows[i].status.t = "err" /\ out_html.rows[i].status.s = SortedRows[i].status.s)
               /\ \A c \in SortedFrame.cols \ {"status"} :
                      /\ heap[df_html].rows[i][c] = SortedRows[i][c]
                      /\ out_html.rows[i][c] = HtmlCell(SortedRows[i][c])

\* C9 witness: a page whose sort changed the row order, with an OK row
\* marked ok and a FAIL row marked err.
C9_Witness ==
    /\ lb_exists
    /\ out_html.slot = "table"
    /\ "status" \in out_html.cols
    /\ SortedRows # heap["df"].rows
    /\ \E i, j \in 1..Len(out_html.rows) :
           /\ SortedRows[i].status = Str("OK")
           /\ out_html.rows[i].status.t = "ok"
           /\ SortedRows[j].status = Str("FAIL")
           /\ out_html.rows[j].status = [t |-> "err", n |-> 0, s |-> "FAIL"]

RawFrame(f) ==
    /\ f.cols = csv.cols
    /\ Len(f.rows) = Len(csv.rows)
    /\ \A i \in 1..Len(f.rows) : \A c \in f.cols :
           f.rows[i][c] \in (IF c = "status" THEN StatusCells ELSE {Num(n) : n \in 0..MaxVal} \cup {NaN})

\* C10: neither renderer mutates the shared sorted table: once sorted, the
\* frame df_sorted refers to never changes, so the image renderer is
\* handed the original status values and row order, and the caller's frame
\* is unchanged after the renderer truncated and formatted its copy; also
\* when no metric column exists and df_sorted is the loaded frame itself.
C10_SortedFrameUnchanged ==
    /\ [](IsSorted => RawFrame(SortedFrame))
    /\ [][df_sorted # "none" => (df_sorted' = df_sorted /\ heap'[df_sorted] = heap[df_sorted])]_vars

\* C10 witness: no metric column, so df_sorted is df itself; the page has
\* the markup, the image was cut to one formatted row, and the frame still
\* has its two rows with the status values as read.
C10_Witness ==
    /\ lb_exists
    /\ pc = "done"
    /\ df_sorted = "df"
    /\ SortedFrame = csv
    /\ Len(SortedRows) = 2
    /\ heap["html"].rows[1].status.t \in {"ok", "err"}
    /\ out_png.kind = "table"
    /\ Len(out_png.rows) = 1

====
